---------------------------- MODULE Spec2Model ----------------------------
(* Model of app.py: broadband-infrastructure lookup through pluggable      *)
(* providers (Address, InfraResult, MockProvider, WiradiusTTProvider,      *)
(* LinkOutProvider and the "submitted" handler of the form).               *)
(*                                                                         *)
(* Text of one character is a TLA+ string; the text fields the code works  *)
(* on character by character (il, ilce) are sequences of such characters.  *)
(* Text the code only tests for emptiness or passes on (credential tokens, *)
(* tt_adres_kodu, technology names) is a TLA+ string.  Non-ASCII letters   *)
(* of the source's literals are written in ASCII.                          *)
EXTENDS Integers, Sequences, FiniteSets, TLC

VARIABLES
    WIR_API,          \* module global, line 122
    WIR_UNIQ,         \* module global, line 123
    PROVIDERS,        \* module global, lines 119-127
    form,             \* the widgets' values of the submitted form, lines 136-153
    pc,               \* position of the script: idle, querying, rendered, error
    address,          \* local of the handler, line 157
    active_providers, \* local of the handler, lines 159-166
    idx,              \* number of providers the loop of line 170 has passed
    results,          \* local of the handler, lines 169-174
    error,            \* the text st.error shows, line 197
    outputs,          \* history: res of every iteration, line 173
    http_log,         \* history: every requests.post issued, line 89
    upstream,         \* history: the answer the remote service gave last
    queries,          \* history: number of submitted forms
    first_cfg,        \* history: the credential pair read at start-up
    calls,            \* history: the provider objects whose query was called
    prior,            \* history: override pair and provider list of each query
    environ,          \* os.environ of the process
    arg,              \* component run: the provider object under test
    ret               \* component run: what its query did

vars == << WIR_API, WIR_UNIQ, PROVIDERS, form, pc, address, active_providers,
           idx, results, error, outputs, http_log, upstream, queries,
           first_cfg, calls, prior, environ, arg, ret >>

-----------------------------------------------------------------------------
(* Bounds of the model.                                                    *)

\* forms submitted in one behaviour
MaxQueries == 2
\* whitespace characters put before and after a province or district
MaxPad == 1
\* leading letters of a word whose case varies freely
MaxCasePos == 4
\* keys present in an upstream JSON object
MaxKeys == 2

-----------------------------------------------------------------------------
(* Characters and str methods.                                             *)

LowerChars == << "a","b","c","d","e","f","g","h","i","j","k","l","m",
                 "n","o","p","q","r","s","t","u","v","w","x","y","z" >>
UpperChars == << "A","B","C","D","E","F","G","H","I","J","K","L","M",
                 "N","O","P","Q","R","S","T","U","V","W","X","Y","Z" >>

\* the characters str.strip() removes, among those the model types
Whitespace == { " ", "\t" }

\* str.lower() on one character
CharLower(c) ==
    IF \E i \in 1..Len(UpperChars) : UpperChars[i] = c
      THEN LowerChars[CHOOSE i \in 1..Len(UpperChars) : UpperChars[i] = c]
      ELSE c

\* str.upper() on one character
CharUpper(c) ==
    IF \E i \in 1..Len(LowerChars) : LowerChars[i] = c
      THEN UpperChars[CHOOSE i \in 1..Len(LowerChars) : LowerChars[i] = c]
      ELSE c

\* StrLower with a fault: the province is compared as typed
StrLowerAsTyped(s) == s

\* str.lower()
StrLower(s) == [i \in 1..Len(s) |-> CharLower(s[i])]

RECURSIVE LStrip(_)
LStrip(s) ==
    IF s # << >> /\ Head(s) \in Whitespace THEN LStrip(Tail(s)) ELSE s

RECURSIVE RStrip(_)
RStrip(s) ==
    IF s # << >> /\ s[Len(s)] \in Whitespace
      THEN RStrip(SubSeq(s, 1, Len(s) - 1))
      ELSE s

\* StrStrip with a fault: only leading whitespace is removed
StrStripLeft(s) == LStrip(s)

\* str.strip()
StrStrip(s) == RStrip(LStrip(s))

-----------------------------------------------------------------------------
(* Address, lines 31-45.                                                   *)

NoAddress == [il |-> << >>, ilce |-> << >>, mahalle |-> "", cadde_sokak |-> "",
              bina_no |-> "", daire |-> "", tt_adres_kodu |-> ""]

RequiredMsg == "Bu alan zorunludur"

\* non_empty with a fault: the empty value is let through
non_empty_unchecked(v) == [ok |-> TRUE, v |-> StrStrip(v), msg |-> ""]

\* the validator of il and ilce, lines 40-45: the value kept, or the
\* ValueError
non_empty(v) ==
    LET s == StrStrip(v)
    IN  IF s = << >> THEN [ok |-> FALSE, v |-> s, msg |-> RequiredMsg]
                     ELSE [ok |-> TRUE, v |-> s, msg |-> ""]

\* Address(il=..., ilce=..., ...): the object, or the ValidationError
AddressNew(f) ==
    LET vil   == non_empty(f.il)
        vilce == non_empty(f.ilce)
    IN  IF vil.ok /\ vilce.ok
          THEN [ok |-> TRUE, msg |-> "",
                address |-> [il |-> vil.v, ilce |-> vilce.v,
                             mahalle |-> f.mahalle,
                             cadde_sokak |-> f.cadde, bina_no |-> f.bina_no,
                             daire |-> f.daire, tt_adres_kodu |-> f.tt_kod]]
          ELSE [ok |-> FALSE, msg |-> RequiredMsg, address |-> NoAddress]

-----------------------------------------------------------------------------
(* InfraResult, lines 47-53.  An Optional[float] is [some, v]; an          *)
(* Optional[bool] is one of "None", "True", "False".                       *)

NoneNum == [some |-> FALSE, v |-> 0]
SomeNum(x) == [some |-> TRUE, v |-> x]

InfraResult(provider, technology, down, up, port, raw) ==
    [provider |-> provider, technology |-> technology, max_down_mbps |-> down,
     max_up_mbps |-> up, port_available |-> port, raw |-> raw]

-----------------------------------------------------------------------------
(* Providers, lines 58-114.  A provider object is a record of its class,   *)
(* its name and the two attributes WiradiusTTProvider.__init__ sets.       *)

MockName == "Demo (Mock)"
WiradiusName == "Wiradius - TT VAE (Opsiyonel)"
LinkOutName == "Resmi Sayfalar - Yonlendirme"

MockProvider == [cls |-> "MockProvider", name |-> MockName,
                 api_code |-> "", uniq_code |-> ""]

WiradiusTTProvider(api_code, uniq_code) ==
    [cls |-> "WiradiusTTProvider", name |-> WiradiusName,
     api_code |-> api_code, uniq_code |-> uniq_code]

LinkOutProvider == [cls |-> "LinkOutProvider", name |-> LinkOutName,
                    api_code |-> "", uniq_code |-> ""]

\* line 69
karadeniz ==
    { << "r","i","z","e" >>,
      << "a","r","t","v","i","n" >>,
      << "t","r","a","b","z","o","n" >>,
      << "g","i","r","e","s","u","n" >>,
      << "o","r","d","u" >>,
      << "s","a","m","s","u","n" >>,
      << "b","a","r","t","i","n" >>,
      << "k","a","s","t","a","m","o","n","u" >>,
      << "s","i","n","o","p" >>,
      << "z","o","n","g","u","l","d","a","k" >> }

\* line 70
MockTech(a) == IF StrLower(a.il) \in karadeniz THEN "Fiber" ELSE "VDSL"

\* MockProvider.query, lines 66-73
MockQuery(a) ==
    LET tech == MockTech(a)
        down == IF tech = "Fiber" THEN 1000 ELSE 100
        up   == IF tech = "Fiber" THEN 100 ELSE 8
    IN  << InfraResult(MockName, tech, SomeNum(down), SomeNum(up), "True",
                       [rule |-> "demo"]) >>

\* LinkOutProvider.LINKS, lines 104-112
LINKS ==
    [label \in { "Turk Telekom Altyapi Sorgu", "TT Kapsama Haritasi",
                 "Turkcell Superonline", "Turkcell (Superbox/Altyapi)",
                 "Millenicom", "Netspeed", "BTK - EHABS (e-Devlet)" } |->
       CASE label = "Turk Telekom Altyapi Sorgu" ->
              "https://www.turktelekom.com.tr/altyapi-sorgulama"
         [] label = "TT Kapsama Haritasi" ->
              "https://kapsamaharitasi.turktelekom.com.tr/"
         [] label = "Turkcell Superonline" ->
              "https://www.superonline.net/altyapi-sorgulama"
         [] label = "Turkcell (Superbox/Altyapi)" ->
              "https://www.turkcell.com.tr/tr/altyapi-sorgulama"
         [] label = "Millenicom" ->
              "https://www.milleni.com.tr/internet-altyapi-sorgulama"
         [] label = "Netspeed" ->
              "https://www.netspeed.com.tr/altyapi-sorgula"
         [] label = "BTK - EHABS (e-Devlet)" ->
              "https://www.turkiye.gov.tr/btk-elektronik-haberlesme-altyapi-bilgi-sistemi-ehabs-hizmetleri-4302"]

\* LinkOutProvider.query, lines 113-114
LinkOutQuery(a) ==
    << InfraResult(LinkOutName, "Yonlendirme", NoneNum, NoneNum, "None", LINKS) >>

-----------------------------------------------------------------------------
(* JSON values of the upstream body and Python's operations on them.       *)
(* A value is [k, n, s]: its kind, and its number or its text.             *)

JNull == [k |-> "null", n |-> 0, s |-> ""]
JNum(x) == [k |-> "num", n |-> x, s |-> ""]
JStr(x) == [k |-> "str", n |-> 0, s |-> x]
JBool(b) == [k |-> "bool", n |-> IF b THEN 1 ELSE 0, s |-> ""]

\* bool(v): None, 0, "" and False are false
Truthy(v) ==
    CASE v.k = "null" -> FALSE
      [] v.k = "num"  -> v.n # 0
      [] v.k = "str"  -> v.s # ""
      [] v.k = "bool" -> v.n # 0

\* a or b
PyOr(a, b) == IF Truthy(a) THEN a ELSE b

\* dict.get(key): the value, None for a key that is not there
DictGet(data, key) == IF key \in DOMAIN data THEN data[key] ELSE JNull

\* str(v)
PyStr(v) ==
    CASE v.k = "null" -> "None"
      [] v.k = "num"  -> ToString(v.n)
      [] v.k = "str"  -> v.s
      [] v.k = "bool" -> IF v.n = 1 THEN "True" ELSE "False"

\* the texts of the model that float() reads as a number
NumericText == { "100" }
TextAsNum(t) == CASE t = "100" -> 100

\* pydantic on an Optional[float] field: the value, or a validation error
AsOptionalFloat(v) ==
    CASE v.k = "null" -> [ok |-> TRUE, v |-> NoneNum]
      [] v.k = "num"  -> [ok |-> TRUE, v |-> SomeNum(v.n)]
      [] v.k = "bool" -> [ok |-> TRUE, v |-> SomeNum(v.n)]
      [] v.k = "str"  -> IF v.s \in NumericText
                           THEN [ok |-> TRUE, v |-> SomeNum(TextAsNum(v.s))]
                           ELSE [ok |-> FALSE, v |-> NoneNum]

\* the texts of the model that pydantic reads as a bool
TrueText == { "true" }

\* pydantic on an Optional[bool] field: the value, or a validation error
AsOptionalBool(v) ==
    CASE v.k = "null" -> [ok |-> TRUE, v |-> "None"]
      [] v.k = "bool" -> [ok |-> TRUE, v |-> IF v.n = 1 THEN "True" ELSE "False"]
      [] v.k = "num"  -> IF v.n = 1 THEN [ok |-> TRUE, v |-> "True"]
                         ELSE IF v.n = 0 THEN [ok |-> TRUE, v |-> "False"]
                         ELSE [ok |-> FALSE, v |-> "None"]
      [] v.k = "str"  -> IF v.s \in TrueText THEN [ok |-> TRUE, v |-> "True"]
                         ELSE [ok |-> FALSE, v |-> "None"]

-----------------------------------------------------------------------------
(* WiradiusTTProvider.query, lines 82-99.  The answer of the remote        *)
(* service is [transport, status, body, data]: whether requests.post       *)
(* returned or raised, the status code, whether the body is a JSON         *)
(* object, another JSON value or no JSON, and the object.                  *)

RequestTimeout == 20

EmptyDict == [key \in {} |-> JNull]

\* line 86-87, 89: the request
PostRequest(p, a) ==
    [url |-> << "https://api.wiradius.com/internet_infrastructure/tt_vae_query/",
                p.api_code >>,
     json |-> [tt_code |-> a.tt_adres_kodu, uniq_code |-> p.uniq_code],
     timeout |-> RequestTimeout]

\* Inapplicable with a fault: the address code is not looked at
InapplicableNoCode(p, a) == ~ (p.api_code # "" /\ p.uniq_code # "")

\* line 83
Inapplicable(p, a) ==
    ~ (p.api_code # "" /\ p.uniq_code # "" /\ a.tt_adres_kodu # "")

\* Response.raise_for_status(), line 90
HttpError(status) == 400 <= status /\ status < 600

\* lines 89-97: the exception the try block raises ("" for none) and, with
\* none, the result it returns
TryBlock(p, up) ==
    LET data     == up.data
        tech     == PyOr(PyOr(DictGet(data, "technology"), DictGet(data, "tech")),
                         JStr("Belirsiz"))
        max_down == PyOr(DictGet(data, "max_down"), DictGet(data, "download"))
        max_up   == PyOr(DictGet(data, "max_up"), DictGet(data, "upload"))
        port     == DictGet(data, "port_available")
        fdown    == AsOptionalFloat(max_down)
        fup      == AsOptionalFloat(max_up)
        bport    == AsOptionalBool(port)
        none     == InfraResult(p.name, "", NoneNum, NoneNum, "None", EmptyDict)
    IN  IF up.transport # "ok"
          THEN [exc |-> up.transport, value |-> none]
        ELSE IF HttpError(up.status)
          THEN [exc |-> "HTTPError", value |-> none]
        ELSE IF up.body = "text"
          THEN [exc |-> "JSONDecodeError", value |-> none]
        ELSE IF up.body # "object"
          THEN [exc |-> "AttributeError", value |-> none]
        ELSE IF ~ (fdown.ok /\ fup.ok /\ bport.ok)
          THEN [exc |-> "ValidationError", value |-> none]
        ELSE [exc |-> "",
              value |-> InfraResult(p.name, PyStr(tech), fdown.v, fup.v,
                                    bport.v, data)]

\* the exceptions of lines 89-91 that are requests.RequestException: those
\* of requests.post and raise_for_status, and the JSONDecodeError of
\* resp.json() (requests.exceptions.JSONDecodeError, requests 2.27 and
\* later).  The AttributeError of data.get on a body that is no object and
\* pydantic's ValidationError are not.
RequestExceptions == { "Timeout", "ConnectionError", "HTTPError",
                       "JSONDecodeError" }

\* Caught with a fault: except requests.RequestException, which lets the
\* AttributeError and the ValidationError leave the call
CaughtRequestsOnly(exc) == exc \in RequestExceptions

\* line 98: except Exception
Caught(exc) == exc # ""

\* WiradiusTTProvider.query: [raised, res, posted], the exception that
\* leaves the call ("" for none), the list returned and the requests posted
WiradiusQuery(p, a, up) ==
    IF Inapplicable(p, a)
      THEN [raised |-> "", res |-> << >>, posted |-> << >>]
      ELSE LET t == TryBlock(p, up)
           IN  IF t.exc = ""
                 THEN [raised |-> "", res |-> << t.value >>,
                       posted |-> << PostRequest(p, a) >>]
               ELSE IF Caught(t.exc)
                 THEN [raised |-> "",
                       res |-> << InfraResult(p.name, "Hata", NoneNum, NoneNum,
                                              "None", [error |-> t.exc]) >>,
                       posted |-> << PostRequest(p, a) >>]
               ELSE [raised |-> t.exc, res |-> << >>,
                     posted |-> << PostRequest(p, a) >>]

\* Provider.query of an object p, by its class
Query(p, a, up) ==
    CASE p.cls = "MockProvider" ->
           [raised |-> "", res |-> MockQuery(a), posted |-> << >>]
      [] p.cls = "WiradiusTTProvider" -> WiradiusQuery(p, a, up)
      [] p.cls = "LinkOutProvider" ->
           [raised |-> "", res |-> LinkOutQuery(a), posted |-> << >>]

-----------------------------------------------------------------------------
(* The script, lines 119-127 and 155-197.  Streamlit runs the script from  *)
(* its first line on every submission of the form.                         *)

\* os.getenv(name, "")
Getenv(env, name) == IF name \in DOMAIN env THEN env[name] ELSE ""

\* lines 125-127
ModuleProviders(api, uniq) ==
    << MockProvider, WiradiusTTProvider(api, uniq), LinkOutProvider >>

\* ActiveProviders with a fault: each token comes from the form when typed
\* there and from the environment otherwise
ActiveProvidersPerToken(f, api, uniq) ==
    LET a == IF f.wir_api_input # "" THEN f.wir_api_input ELSE api
        u == IF f.wir_uniq_input # "" THEN f.wir_uniq_input ELSE uniq
    IN  << MockProvider >>
        \o (IF a # "" /\ u # "" THEN << WiradiusTTProvider(a, u) >> ELSE << >>)
        \o << LinkOutProvider >>

\* ActiveProviders with a fault: the remote provider is left out for an
\* address without a code
ActiveProvidersWhenCode(f, api, uniq) ==
    << MockProvider >>
    \o (IF f.tt_kod = "" THEN << >>
        ELSE IF f.wir_api_input # "" /\ f.wir_uniq_input # ""
          THEN << WiradiusTTProvider(f.wir_api_input, f.wir_uniq_input) >>
          ELSE IF api # "" /\ uniq # ""
                 THEN << WiradiusTTProvider(api, uniq) >>
                 ELSE << >>)
    \o << LinkOutProvider >>

\* lines 159-166
ActiveProviders(f, api, uniq) ==
    << MockProvider >>
    \o (IF f.wir_api_input # "" /\ f.wir_uniq_input # ""
          THEN << WiradiusTTProvider(f.wir_api_input, f.wir_uniq_input) >>
          ELSE IF api # "" /\ uniq # ""
                 THEN << WiradiusTTProvider(api, uniq) >>
                 ELSE << >>)
    \o << LinkOutProvider >>

\* Extend with a fault: the list is replaced
ExtendReplacing(list, res) == res

\* list.extend, line 174
Extend(list, res) == list \o res

\* line 170: for p in active_providers
LoopGoesOn(list, i) == i < Len(list)

\* the answer of the remote service where no request is posted
NoUpstream == [transport |-> "ok", status |-> 200, body |-> "text",
               data |-> EmptyDict]

\* whether the call p.query(a) reaches requests.post
Posts(p, a) == p.cls = "WiradiusTTProvider" /\ ~ Inapplicable(p, a)

ErrorPrefix == "Form dogrulama hatasi: "

\* the script runs with submitted = True, up to the loop: lines 119-127,
\* 155-169 and, for an Address that is refused, 196-197
Submit(f) ==
    /\ pc \in { "idle", "rendered", "error" }
    /\ queries < MaxQueries
    /\ queries' = queries + 1
    /\ form' = f
    /\ WIR_API' = Getenv(environ, "WIRADIUS_API_CODE")
    /\ WIR_UNIQ' = Getenv(environ, "WIRADIUS_UNIQ_CODE")
    /\ PROVIDERS' = ModuleProviders(WIR_API', WIR_UNIQ')
    /\ LET r == AddressNew(f)
       IN  /\ address' = r.address
           /\ IF r.ok
                THEN /\ active_providers' = ActiveProviders(f, WIR_API', WIR_UNIQ')
                     /\ pc' = "querying"
                     /\ error' = << >>
                ELSE /\ active_providers' = << >>
                     /\ pc' = "error"
                     /\ error' = << ErrorPrefix, r.msg >>
    /\ idx' = 0
    /\ results' = << >>
    /\ outputs' = << >>
    /\ http_log' = << >>
    /\ upstream' = NoUpstream
    /\ calls' = << >>
    /\ prior' = IF pc' = "querying"
                THEN prior \cup { << f.wir_api_input, f.wir_uniq_input,
                                     active_providers' >> }
                ELSE prior
    /\ UNCHANGED << first_cfg, environ, arg, ret >>

\* one iteration of the loop, lines 170-174, the remote service giving one
\* of the answers ups where the provider posts a request
QueryNext(ups) ==
    /\ pc = "querying"
    /\ LoopGoesOn(active_providers, idx)
    /\ LET p == active_providers[idx + 1]
       IN  \E up \in IF Posts(p, address) THEN ups ELSE { NoUpstream } :
             LET r == Query(p, address, up)
             IN  /\ upstream' = IF Posts(p, address) THEN up ELSE upstream
                 /\ http_log' = http_log \o r.posted
                 /\ calls' = Append(calls, p)
                 /\ IF r.raised = ""
                      THEN /\ results' = Extend(results, r.res)
                           /\ outputs' = Append(outputs, r.res)
                           /\ idx' = idx + 1
                           /\ pc' = "querying"
                           /\ error' = error
                      ELSE /\ pc' = "error"
                           /\ error' = << ErrorPrefix, r.raised >>
                           /\ UNCHANGED << results, outputs, idx >>
    /\ UNCHANGED << WIR_API, WIR_UNIQ, PROVIDERS, form, address,
                    active_providers, queries, first_cfg, prior, environ, arg,
                    ret >>

\* the loop is over and the results are shown, lines 176-194
Render ==
    /\ pc = "querying"
    /\ ~ LoopGoesOn(active_providers, idx)
    /\ pc' = "rendered"
    /\ UNCHANGED << WIR_API, WIR_UNIQ, PROVIDERS, form, address,
                    active_providers, idx, results, error, outputs, http_log,
                    upstream, queries, first_cfg, calls, prior, environ, arg,
                    ret >>

-----------------------------------------------------------------------------
(* The inputs.                                                             *)

Min(a, b) == IF a < b THEN a ELSE b

\* the word w with the letters at the positions of up in upper case
Cased(w, up) == [i \in 1..Len(w) |-> IF i \in up THEN CharUpper(w[i]) ELSE w[i]]

\* w in every case of its first MaxCasePos letters, and in upper case
Casings(w) ==
    { Cased(w, up) : up \in SUBSET (1..Min(Len(w), MaxCasePos)) }
    \cup { Cased(w, 1..Len(w)) }

\* the runs of at most MaxPad whitespace characters
Pads == UNION { [1..n -> Whitespace] : n \in 0..MaxPad }

Padded(S) == { l \o w \o r : l \in Pads, w \in S, r \in Pads }

\* provinces that are not in karadeniz: another one, a longer and a shorter
\* text than an entry, an entry with a blank inside, and no text
OtherWords ==
    { << "v","a","n" >>, << "o","r","d","u","s" >>, << "r","i","z" >>,
      << "o","r"," ","d","u" >>, << >> }

Provinces == Padded(UNION { Casings(w) : w \in karadeniz \cup OtherWords })

Districts ==
    { << >>, << " " >>, << "M","e","r","k","e","z" >>,
      << " ","M","e","r","k","e","z","\t" >> }

FormOf(il, ilce, tt_kod, api, uniq) ==
    [il |-> il, ilce |-> ilce, mahalle |-> "", cadde |-> "", bina_no |-> "",
     daire |-> "", tt_kod |-> tt_kod, wir_api_input |-> api,
     wir_uniq_input |-> uniq]

Rize == << "R","i","z","e" >>
Merkez == << "M","e","r","k","e","z" >>

\* the forms of the runs of Address and MockProvider
AddressForms == { FormOf(il, ilce, "", "", "") : il \in Provinces, ilce \in Districts }

\* the forms of the runs of WiradiusTTProvider
RemoteForms == { FormOf(Rize, Merkez, tt, "", "") : tt \in { "", "TT42" } }

\* the forms of the runs of the script
ScriptForms ==
    { FormOf(il, ilce, tt, api, uniq) :
        il \in { Rize, << " ","V","A","N" >>, << " " >> },
        ilce \in { Merkez, << >> },
        tt \in { "", "TT42" },
        api \in { "", "A1" },
        uniq \in { "", "U1" } }

\* the environments the process starts in
Environs ==
    UNION { [K -> { "", "E0" }] :
              K \in SUBSET { "WIRADIUS_API_CODE", "WIRADIUS_UNIQ_CODE" } }

JsonKeys == { "technology", "tech", "max_down", "download", "max_up", "upload",
              "port_available" }

JsonValues == { JNull, JStr(""), JStr("Fiber"), JStr("100"), JStr("true"),
                JNum(0), JNum(-5), JNum(50), JBool(TRUE), JBool(FALSE) }

\* the JSON objects of at most MaxKeys keys
JsonObjects ==
    UNION { [K -> JsonValues] :
              K \in { K \in SUBSET JsonKeys : Cardinality(K) <= MaxKeys } }

Statuses == { 200, 304, 404, 503 }

TransportErrors == { "Timeout", "ConnectionError" }

\* the answers of the remote service
Upstreams ==
    { [transport |-> t, status |-> 200, body |-> "text", data |-> EmptyDict] :
        t \in TransportErrors }
    \cup { [transport |-> "ok", status |-> st, body |-> b, data |-> EmptyDict] :
             st \in Statuses, b \in { "text", "array" } }
    \cup { [transport |-> "ok", status |-> st, body |-> "object", data |-> d] :
             st \in Statuses, d \in JsonObjects }

\* the answers of the remote service in the runs of the script
ScriptUpstreams ==
    { [transport |-> "Timeout", status |-> 200, body |-> "text",
       data |-> EmptyDict],
      [transport |-> "ok", status |-> 404, body |-> "text", data |-> EmptyDict],
      [transport |-> "ok", status |-> 200, body |-> "object",
       data |-> [key \in { "tech", "max_down" } |->
                   IF key = "tech" THEN JStr("Fiber") ELSE JNum(50)]] }

-----------------------------------------------------------------------------
(* The script: the process starts in some environment, and forms are       *)
(* submitted one after the other.                                          *)

Init ==
    /\ environ \in Environs
    /\ WIR_API = Getenv(environ, "WIRADIUS_API_CODE")
    /\ WIR_UNIQ = Getenv(environ, "WIRADIUS_UNIQ_CODE")
    /\ PROVIDERS = ModuleProviders(WIR_API, WIR_UNIQ)
    /\ first_cfg = << WIR_API, WIR_UNIQ >>
    /\ form = FormOf(Rize, Merkez, "", "", "")
    /\ pc = "idle"
    /\ address = NoAddress
    /\ active_providers = << >>
    /\ idx = 0
    /\ results = << >>
    /\ error = << >>
    /\ outputs = << >>
    /\ http_log = << >>
    /\ upstream = NoUpstream
    /\ queries = 0
    /\ calls = << >>
    /\ prior = {}
    /\ arg = MockProvider
    /\ ret = [raised |-> "", res |-> << >>, posted |-> << >>]

Next ==
    \/ \E f \in ScriptForms : Submit(f)
    \/ QueryNext(ScriptUpstreams)
    \/ Render

Spec == Init /\ [][Next]_vars

-----------------------------------------------------------------------------
(* Component runs: an Address is constructed from a form and the query of  *)
(* one provider object is called on it.                                    *)

UnitInit(forms, providers) ==
    /\ environ = [name \in {} |-> ""]
    /\ WIR_API = ""
    /\ WIR_UNIQ = ""
    /\ PROVIDERS = ModuleProviders(WIR_API, WIR_UNIQ)
    /\ first_cfg = << WIR_API, WIR_UNIQ >>
    /\ form \in forms
    /\ pc = "unit"
    /\ address = NoAddress
    /\ active_providers = << >>
    /\ idx = 0
    /\ results = << >>
    /\ error = << >>
    /\ outputs = << >>
    /\ http_log = << >>
    /\ upstream = NoUpstream
    /\ queries = 0
    /\ calls = << >>
    /\ prior = {}
    /\ arg \in providers
    /\ ret = [raised |-> "", res |-> << >>, posted |-> << >>]

\* Address(...) on the form, line 157
Construct ==
    /\ pc = "unit"
    /\ LET r == AddressNew(form)
       IN  /\ address' = r.address
           /\ pc' = IF r.ok THEN "constructed" ELSE "refused"
           /\ error' = IF r.ok THEN << >> ELSE << r.msg >>
    /\ UNCHANGED << WIR_API, WIR_UNIQ, PROVIDERS, form, active_providers, idx,
                    results, outputs, http_log, upstream, queries, first_cfg,
                    calls, prior, environ, arg, ret >>

\* arg.query(address), the remote service giving one of the answers ups
\* where the provider posts a request
Call(ups) ==
    /\ pc = "constructed"
    /\ \E up \in IF Posts(arg, address) THEN ups ELSE { NoUpstream } :
         /\ ret' = Query(arg, address, up)
         /\ upstream' = up
    /\ pc' = "returned"
    /\ UNCHANGED << WIR_API, WIR_UNIQ, PROVIDERS, form, address,
                    active_providers, idx, results, error, outputs, http_log,
                    queries, first_cfg, calls, prior, environ, arg >>

InitAddress == UnitInit(AddressForms, { MockProvider, LinkOutProvider })

NextAddress == Construct \/ Call({ NoUpstream })

SpecAddress == InitAddress /\ [][NextAddress]_vars

RemoteProviders ==
    { WiradiusTTProvider(api, uniq) : api \in { "", "A1" }, uniq \in { "", "U1" } }
    \cup { MockProvider, LinkOutProvider }

InitRemote == UnitInit(RemoteForms, RemoteProviders)

NextRemote ==
    \/ Construct
    \/ Call(Upstreams)

SpecRemote == InitRemote /\ [][NextRemote]_vars

-----------------------------------------------------------------------------
(* The properties.                                                         *)

\* s is empty or holds whitespace only
Blank(s) == \A i \in 1..Len(s) : s[i] \in Whitespace

\* s is not empty and neither starts nor ends with whitespace
Trimmed(s) == s # << >> /\ s[1] \notin Whitespace /\ s[Len(s)] \notin Whitespace

\* t is s without the whitespace around it
TrimOf(s, t) ==
    \E i \in 1..Len(s) : \E j \in i..Len(s) :
      /\ t = SubSeq(s, i, j)
      /\ \A k \in 1..Len(s) : (k < i \/ k > j) => s[k] \in Whitespace

\* C1: constructing an Address is refused, with the validator's message,
\* exactly when il or ilce is empty or whitespace only; an Address that was
\* constructed holds il and ilce as the non-empty, trimmed text of the input.
C1_AddressValidation ==
    pc \in { "constructed", "refused", "returned" } =>
      /\ (pc = "refused") <=> (Blank(form.il) \/ Blank(form.ilce))
      /\ pc = "refused" => error = << RequiredMsg >>
      /\ pc # "refused" =>
           /\ Trimmed(address.il) /\ TrimOf(form.il, address.il)
           /\ Trimmed(address.ilce) /\ TrimOf(form.ilce, address.ilce)

\* an Address was constructed from a province and a district that were both
\* typed with whitespace around them
C1_Witness ==
    /\ pc = "constructed"
    /\ Len(form.il) > Len(address.il)
    /\ Len(form.ilce) > Len(address.ilce)

\* the WiradiusTTProvider under test was called
RemoteReturned == pc = "returned" /\ arg.cls = "WiradiusTTProvider"

\* C2: WiradiusTTProvider.query returns an empty list, without raising and
\* without a request, whenever api_code, uniq_code or tt_adres_kodu is empty.
C2_EmptyWhenInapplicable ==
    ( /\ RemoteReturned
      /\ arg.api_code = "" \/ arg.uniq_code = "" \/ address.tt_adres_kodu = "" )
    => ret = [raised |-> "", res |-> << >>, posted |-> << >>]

\* both tokens are set, the address has no code, and the query returned
\* the empty list
C2_Witness ==
    /\ RemoteReturned
    /\ arg.api_code # "" /\ arg.uniq_code # "" /\ address.tt_adres_kodu = ""
    /\ ret.res = << >>

\* the request is posted: both tokens and the address code are there
RemoteApplies ==
    /\ RemoteReturned
    /\ arg.api_code # "" /\ arg.uniq_code # "" /\ address.tt_adres_kodu # ""

\* a transport error or timeout, a 4xx or 5xx status, or a body that is no
\* JSON or no JSON object
UpstreamFailure(up) ==
    \/ up.transport # "ok"
    \/ up.status \in 400..599
    \/ up.body # "object"

\* r is the error-shaped result: technology Hata, raw {"error": message},
\* nothing else set
ErrorShaped(r) ==
    /\ r.provider = WiradiusName
    /\ r.technology = "Hata"
    /\ r.max_down_mbps = NoneNum /\ r.max_up_mbps = NoneNum
    /\ r.port_available = "None"
    /\ DOMAIN r.raw = { "error" } /\ r.raw.error # ""

\* C3: with both tokens and the address code set, WiradiusTTProvider.query
\* never raises and returns one result; after a transport error or timeout,
\* a 4xx/5xx status or a body that is not a JSON object, that result is
\* the error-shaped one.
C3_FailuresBecomeErrorResult ==
    RemoteApplies =>
      /\ ret.raised = ""
      /\ Len(ret.res) = 1
      /\ Len(ret.posted) = 1
      /\ UpstreamFailure(upstream) => ErrorShaped(ret.res[1])

\* the service answered 200 with a JSON array and the query returned the
\* error-shaped result
C3_Witness ==
    /\ RemoteApplies
    /\ upstream.transport = "ok" /\ upstream.status = 200
    /\ upstream.body = "array"
    /\ Len(ret.res) = 1 /\ ErrorShaped(ret.res[1])

\* the value of the first of two keys that is not null
FirstNonNull(data, k1, k2) ==
    IF DictGet(data, k1).k # "null" THEN DictGet(data, k1) ELSE DictGet(data, k2)

\* the query returned a result made from the JSON object of the answer
RemoteSucceeded ==
    /\ RemoteApplies
    /\ ~ UpstreamFailure(upstream)
    /\ ret.raised = "" /\ Len(ret.res) = 1
    /\ ret.res[1].raw = upstream.data
    /\ DOMAIN ret.res[1].raw # { "error" }

\* C7: on a successful answer each field comes from the first of its two
\* keys whose value is not null, port_available from its own key, and the
\* technology is Belirsiz when neither technology key has a value.
C7_FirstNonNullWins ==
    RemoteSucceeded =>
      LET d    == upstream.data
          r    == ret.res[1]
          tech == FirstNonNull(d, "technology", "tech")
      IN  /\ r.technology = IF tech.k = "null" THEN "Belirsiz" ELSE PyStr(tech)
          /\ r.max_down_mbps = AsOptionalFloat(FirstNonNull(d, "max_down", "download")).v
          /\ r.max_up_mbps = AsOptionalFloat(FirstNonNull(d, "max_up", "upload")).v
          /\ r.port_available = AsOptionalBool(DictGet(d, "port_available")).v

\* C8: every InfraResult a provider returns has its technology set and
\* each of its two speeds absent or not negative.
C8_ResultInvariant ==
    pc = "returned" =>
      \A i \in 1..Len(ret.res) :
        /\ ret.res[i].technology # ""
        /\ ret.res[i].max_down_mbps.some => ret.res[i].max_down_mbps.v >= 0
        /\ ret.res[i].max_up_mbps.some => ret.res[i].max_up_mbps.v >= 0

\* s is w (in lower case) in some casing
SameIgnoringCase(s, w) ==
    /\ Len(s) = Len(w)
    /\ \A i \in 1..Len(s) : s[i] = w[i] \/ s[i] = CharUpper(w[i])

\* C6: MockProvider.query returns one result with port_available true:
\* Fiber 1000/100 when the province is an entry of karadeniz in any casing,
\* VDSL 100/8 for every other province.
C6_MockRule ==
    (pc = "returned" /\ arg = MockProvider) =>
      /\ ret.raised = ""
      /\ Len(ret.res) = 1
      /\ ret.res[1].provider = MockName
      /\ ret.res[1].port_available = "True"
      /\ IF \E w \in karadeniz : SameIgnoringCase(address.il, w)
           THEN /\ ret.res[1].technology = "Fiber"
                /\ ret.res[1].max_down_mbps = SomeNum(1000)
                /\ ret.res[1].max_up_mbps = SomeNum(100)
           ELSE /\ ret.res[1].technology = "VDSL"
                /\ ret.res[1].max_down_mbps = SomeNum(100)
                /\ ret.res[1].max_up_mbps = SomeNum(8)

\* the province was typed in mixed case with whitespace around it, and the
\* result is Fiber
C6_Witness ==
    /\ pc = "returned" /\ arg = MockProvider
    /\ address.il \notin karadeniz
    /\ form.il # address.il
    /\ \E i \in 2..Len(address.il) : address.il[i] # CharLower(address.il[i])
    /\ ret.res[1].technology = "Fiber"

\* the lists of out, one after the other
RECURSIVE Flatten(_)
Flatten(out) ==
    IF out = << >> THEN << >>
    ELSE Flatten(SubSeq(out, 1, Len(out) - 1)) \o out[Len(out)]

RECURSIVE SumLen(_)
SumLen(out) ==
    IF out = << >> THEN 0 ELSE Len(Head(out)) + SumLen(Tail(out))

\* C4: the loop calls the providers of the active list once each, in list
\* order, whatever the earlier ones returned; the aggregate is the providers'
\* lists one after the other, so its length is the sum of their lengths; and
\* no provider's answer makes the query end in an error.
C4_AggregateInOrder ==
    /\ pc \in { "querying", "rendered" } =>
         /\ idx <= Len(active_providers)
         /\ calls = SubSeq(active_providers, 1, idx)
         /\ Len(outputs) = idx
         /\ \A i \in 1..Len(outputs) : \A k \in 1..Len(outputs[i]) :
              outputs[i][k].provider = active_providers[i].name
         /\ results = Flatten(outputs)
         /\ Len(results) = SumLen(outputs)
    /\ pc = "rendered" => calls = active_providers
    /\ pc = "error" => calls = << >> /\ active_providers = << >>

\* a query is over in which the remote provider came second and returned an
\* error result, or nothing, and the directory's result is the last one
C4_Witness ==
    /\ pc = "rendered"
    /\ Len(active_providers) = 3
    /\ \/ outputs[2] = << >>
       \/ outputs[2] # << >> /\ outputs[2][1].technology = "Hata"
    /\ results[1].provider = MockName
    /\ results[Len(results)].provider = LinkOutName
    /\ Len(results) = 2 + Len(outputs[2])

\* both fields of the override are typed in
OverrideSet(f) == f.wir_api_input # "" /\ f.wir_uniq_input # ""

\* C5: the active list is Mock, then the remote provider exactly when a
\* credential pair resolves, then the directory; the pair is the form's when
\* both of its fields are typed in, otherwise the configured one when both of
\* its values are set, and never one token of each.
C5_ActiveProviderList ==
    pc \in { "querying", "rendered" } =>
      LET n      == Len(active_providers)
          config == WIR_API # "" /\ WIR_UNIQ # ""
      IN  /\ n = IF OverrideSet(form) \/ config THEN 3 ELSE 2
          /\ active_providers[1] = MockProvider
          /\ active_providers[n] = LinkOutProvider
          /\ n = 3 =>
               /\ active_providers[2].cls = "WiradiusTTProvider"
               /\ active_providers[2].name = WiradiusName
               /\ << active_providers[2].api_code, active_providers[2].uniq_code >>
                    = IF OverrideSet(form)
                        THEN << form.wir_api_input, form.wir_uniq_input >>
                        ELSE << WIR_API, WIR_UNIQ >>

\* one field of the override is typed in, the other is not, both configured
\* values are set, and the remote provider holds the configured pair
C5_Witness ==
    /\ pc = "querying"
    /\ form.wir_api_input # "" /\ form.wir_uniq_input = ""
    /\ WIR_API # "" /\ WIR_UNIQ # ""
    /\ Len(active_providers) = 3
    /\ active_providers[2].api_code = WIR_API
    /\ active_providers[2].api_code # form.wir_api_input

\* C9: a submitted form whose il or ilce is empty or whitespace only ends
\* in the validation error: no provider is called, no request is posted and
\* there is no result.
C9_ValidationBlocksQuery ==
    (queries > 0 /\ (Blank(form.il) \/ Blank(form.ilce))) =>
      /\ pc = "error"
      /\ error = << ErrorPrefix, RequiredMsg >>
      /\ active_providers = << >>
      /\ calls = << >>
      /\ http_log = << >>
      /\ outputs = << >>
      /\ results = << >>

\* the second form of a behaviour was refused for its blank district, with
\* tokens and an address code that would have let the remote provider post
C9_Witness ==
    /\ pc = "error"
    /\ queries = 2
    /\ ~ Blank(form.il) /\ Blank(form.ilce)
    /\ OverrideSet(form) /\ form.tt_kod # ""
    /\ calls = << >> /\ http_log = << >> /\ results = << >>

\* the provider list of every query so far is a function of its override
SameOverrideSameList ==
    \A x \in prior : \A y \in prior :
      (x[1] = y[1] /\ x[2] = y[2]) => x[3] = y[3]

\* C10: no step changes the environment, WIR_API, WIR_UNIQ or PROVIDERS,
\* which stay as read at start-up, and two queries of a behaviour with the
\* same override fields have the same provider list, whatever was submitted
\* or answered before.
C10_QueriesIndependent ==
    [][ /\ environ' = environ
        /\ WIR_API' = WIR_API /\ WIR_UNIQ' = WIR_UNIQ
        /\ PROVIDERS' = PROVIDERS
        /\ << WIR_API', WIR_UNIQ' >> = first_cfg
        /\ SameOverrideSameList' ]_vars

\* a query without override runs with the configured pair right after a
\* query that ran with its own override
C10_Witness ==
    /\ pc = "querying"
    /\ queries = 2
    /\ ~ OverrideSet(form)
    /\ Len(active_providers) = 3
    /\ << active_providers[2].api_code, active_providers[2].uniq_code >> = first_cfg
    /\ \E x \in prior : x[1] # "" /\ x[2] # "" /\ x[3] # active_providers

=============================================================================
